---- MODULE Spec2Model ----
(***************************************************************************)
(* A model of budgie/db.py: the five tables of the ledger, the shared      *)
(* Database object with its current_uid field, and the public methods of   *)
(* class Database.  Every method runs in one transaction                   *)
(* (with sessionmaker(self.db).begin() as session).                        *)
(*                                                                         *)
(* Spec      callers run one method at a time (each method is one step).   *)
(* SpecConc  two callers share the Database object; add_entry and          *)
(*           delete_entry are split at the point where the transaction     *)
(*           has read and has not yet committed.                           *)
(* SpecRace  SpecConc without create_tag and without repeated tag names    *)
(*           in one tag list.                                              *)
(***************************************************************************)
EXTENDS Integers, Sequences, FiniteSets, TLC

\* Python None and SQL NULL.  Primary keys start at 1.
NULL == 0

\* Input domains.
Emails == {"alice", "bob"}
Names == {"cash", "salary"}
TagNames == {"groceries", "rent"}
Callers == {1, 2}

\* The accounts a caller asks for: each name with its type.
AccountInputs ==
    {[name |-> "cash", type |-> "asset"], [name |-> "salary", type |-> "income"]}

Types == {a.type : a \in AccountInputs}

\* Most account rows, entry rows ever inserted, and tag rows at a create_tag.
MaxAccounts == 2
MaxEntries == 2
MaxTags == 1

VARIABLES
    users,            \* table app_user
    accounts,         \* table account
    tags,             \* table tag
    entries,          \* table entry
    entry_tags,       \* table entry_tag
    entry_seq,        \* last primary key given out for table entry
    entry_tag_seq,    \* last primary key given out for table entry_tag
    current_uid,      \* Database.current_uid, shared by all callers
    cascade_backrefs, \* whether a backref event cascades an object into the session
    session,          \* per caller: the open transaction of add_entry / delete_entry
    established,      \* history: the identity each caller last set with set_current_user
    submitted,        \* history: what was passed to add_entry, per live entry id
    ret               \* the outcome of the last write completed

vars == <<users, accounts, tags, entries, entry_tags, entry_seq, entry_tag_seq,
          current_uid, cascade_backrefs, session, established, submitted, ret>>

tables == <<users, accounts, tags, entries, entry_tags, entry_seq, entry_tag_seq>>

(***************************************************************************)
(* Helpers                                                                 *)
(***************************************************************************)
Min(S) == CHOOSE x \in S : \A y \in S : x <= y

Ids(T) == {r.id : r \in T}

Row(T, id) == CHOOSE r \in T : r.id = id

\* Query.first(): the first row in storage order (rows are never updated, so
\* that is primary-key order); None when no row matches.
First(T) == IF T = {} THEN NULL ELSE Min(Ids(T))

\* Iterating a query or a relationship collection: rows in primary-key order.
RECURSIVE InOrder(_)
InOrder(T) ==
    IF T = {} THEN <<>>
    ELSE LET r == Row(T, Min(Ids(T))) IN <<r>> \o InOrder(T \ {r})

RECURSIVE SumAmount(_)
SumAmount(T) ==
    IF T = {} THEN 0
    ELSE LET r == Row(T, Min(Ids(T))) IN r.amount + SumAmount(T \ {r})

\* func.sum(...).scalar(): NULL over no rows.  The flag says whether a value
\* came back.
SqlSum(T) == [null |-> T = {}, value |-> IF T = {} THEN 0 ELSE SumAmount(T)]

\* str(datetime.date): zero-padded ISO format.
Digit(n) == <<"0", "1", "2", "3", "4", "5", "6", "7", "8", "9">>[n + 1]

Pad2(n) == <<Digit(n \div 10), Digit(n % 10)>>

DateStr(d) ==
    <<Digit(d[1] \div 1000), Digit((d[1] \div 100) % 10),
      Digit((d[1] \div 10) % 10), Digit(d[1] % 10), "-">>
    \o Pad2(d[2]) \o <<"-">> \o Pad2(d[3])

\* The entries a caller submits: a paycheck without tags, its reverse with two
\* tags, and one account on both sides with a tag named twice.
EntryInput(dr, cr, amount, tag_names) ==
    [who |-> "bob", when |-> <<2024, 1, 1>>, credit_account |-> cr,
     debit_account |-> dr, amount |-> amount, description |-> "paycheck",
     tags |-> tag_names]

EntryInputs ==
    {EntryInput("cash", "salary", 1, <<>>),
     EntryInput("salary", "cash", 2, <<"groceries", "rent">>),
     EntryInput("cash", "cash", 2, <<"groceries", "groceries">>)}

NoInput ==
    [who |-> "", when |-> <<0, 0, 0>>, credit_account |-> "", debit_account |-> "",
     amount |-> 0, description |-> "", tags |-> <<>>]

NoEntry ==
    [user_id |-> NULL, who |-> "", when |-> <<0, 0, 0>>, credit_account_id |-> NULL,
     debit_account_id |-> NULL, amount |-> 0, description |-> ""]

\* No transaction open.
Idle ==
    [op |-> "idle", entry |-> NoEntry, new_tags |-> <<>>, links |-> <<>>,
     input |-> NoInput, entry_id |-> NULL, del_tags |-> {}]

\* What a call gives back: the exception it raised ("" when none) and, for
\* delete_entry and get_user, whether it found its row.
Ret(err, flag) == [err |-> err, flag |-> flag]

(***************************************************************************)
(* Database.__init__                                                       *)
(***************************************************************************)
Init ==
    /\ users = {[id |-> 1, email |-> "alice"]}
    /\ accounts = {}
    /\ tags = {}
    /\ entries = {}
    /\ entry_tags = {}
    /\ entry_seq = 0
    /\ entry_tag_seq = 0
    /\ current_uid = NULL
    /\ cascade_backrefs \in BOOLEAN
    /\ session = [c \in Callers |-> Idle]
    /\ established = [c \in Callers |-> NULL]
    /\ submitted = {}
    /\ ret = Ret("", FALSE)

(***************************************************************************)
(* Identity and the registries                                             *)
(***************************************************************************)
set_current_user(c, email) ==
    LET user == First({u \in users : u.email = email}) IN
    /\ session[c].op = "idle"
    /\ IF user = NULL
       THEN \* user.id on None
            /\ ret' = Ret("AttributeError", FALSE)
            /\ UNCHANGED <<current_uid, established>>
       ELSE /\ current_uid' = user
            /\ established' = [established EXCEPT ![c] = user]
            /\ ret' = Ret("", FALSE)
    /\ UNCHANGED <<tables, cascade_backrefs, session, submitted>>

create_user(c, email) ==
    /\ session[c].op = "idle"
    /\ IF \E u \in users : u.email = email
       THEN \* email is unique
            /\ ret' = Ret("IntegrityError", FALSE)
            /\ UNCHANGED users
       ELSE /\ users' = users \cup {[id |-> Cardinality(users) + 1, email |-> email]}
            /\ ret' = Ret("", FALSE)
    /\ UNCHANGED <<accounts, tags, entries, entry_tags, entry_seq, entry_tag_seq,
                   current_uid, cascade_backrefs, session, established, submitted>>

UserByEmail(email) == First({u \in users : u.email = email})

\* UserSchema().dump(user) of the row found, or None: the flag says which.
GetUser(email) == [found |-> UserByEmail(email) # NULL, id |-> UserByEmail(email)]

get_user(c, email) ==
    /\ session[c].op = "idle"
    /\ UNCHANGED vars

\* UniqueConstraint("name", "user_id"): two rows conflict when both columns are
\* equal and neither is NULL.
AccountConflict(uid, name) ==
    /\ uid # NULL
    /\ \E a \in accounts : a.user_id = uid /\ a.name = name

create_account(c, name, type) ==
    /\ session[c].op = "idle"
    /\ Cardinality(accounts) < MaxAccounts
    /\ IF AccountConflict(current_uid, name)
       THEN /\ ret' = Ret("IntegrityError", FALSE)
            /\ UNCHANGED accounts
       ELSE /\ accounts' = accounts \cup
                   {[id |-> Cardinality(accounts) + 1, user_id |-> current_uid,
                     name |-> name, type |-> type]}
            /\ ret' = Ret("", FALSE)
    /\ UNCHANGED <<users, tags, entries, entry_tags, entry_seq, entry_tag_seq,
                   current_uid, cascade_backrefs, session, established, submitted>>

create_tag(c, tag) ==
    /\ session[c].op = "idle"
    /\ Cardinality(tags) < MaxTags
    /\ tags' = tags \cup
           {[id |-> Cardinality(tags) + 1, user_id |-> current_uid, tag |-> tag]}
    /\ ret' = Ret("", FALSE)
    /\ UNCHANGED <<users, accounts, entries, entry_tags, entry_seq, entry_tag_seq,
                   current_uid, cascade_backrefs, session, established, submitted>>

(***************************************************************************)
(* add_entry                                                               *)
(***************************************************************************)
\* session.query(AccountModel).filter_by(name=...).first()
AccountByName(name) == First({a \in accounts : a.name = name})

\* session.query(TagModel).filter(TagModel.tag == tag_name).first(), over the
\* committed rows.
TagByName(tag_name) == First({t \in tags : t.tag = tag_name})

\* The query autoflushes first: the TagModel objects this call has created are
\* in the table when it runs, provided they have been cascaded into the session.
FlushedTags(p, tag_name) ==
    IF p.in_session
    THEN {i \in 1..Len(p.new_tags) : p.new_tags[i].tag = tag_name}
    ELSE {}

\* One pass of the loop over entry["tags"].  A link's tag is a stored row
\* (tag_id) or the new_tag-th TagModel object created by this call.
TagStep(p, uid, tag_name) ==
    LET stored == TagByName(tag_name)
        flushed == FlushedTags(p, tag_name)
    IN  IF stored # NULL
        THEN \* entry_tag.tag = <persistent row>: the backref event puts entry_tag,
             \* and with it entry_m, into the session when backrefs cascade.
             [p EXCEPT !.links = Append(@, [user_id |-> uid, tag_id |-> stored,
                                            new_tag |-> 0]),
                       !.in_session = @ \/ cascade_backrefs]
        ELSE IF flushed # {}
        THEN [p EXCEPT !.links = Append(@, [user_id |-> uid, tag_id |-> NULL,
                                            new_tag |-> Min(flushed)])]
        ELSE [p EXCEPT !.new_tags = Append(@, [user_id |-> uid, tag |-> tag_name]),
                       !.links = Append(@, [user_id |-> uid, tag_id |-> NULL,
                                            new_tag |-> Len(p.new_tags) + 1])]

RECURSIVE TagLoop(_, _, _)
TagLoop(p, uid, tag_names) ==
    IF tag_names = <<>> THEN p
    ELSE TagLoop(TagStep(p, uid, Head(tag_names)), uid, Tail(tag_names))

\* The body of add_entry up to session.add(entry_m): the objects it builds.
\* Assigning a persistent account to entry_m.credit_account / debit_account
\* fires the backref event on the account, which puts entry_m into the session
\* when backrefs cascade.
AddEntryPlan(uid, entry) ==
    LET debit_account == AccountByName(entry.debit_account)
        credit_account == AccountByName(entry.credit_account)
        entry_m == [user_id |-> uid, who |-> entry.who, when |-> entry.when,
                    credit_account_id |-> credit_account,
                    debit_account_id |-> debit_account,
                    amount |-> entry.amount, description |-> entry.description]
    IN  TagLoop([entry |-> entry_m, new_tags |-> <<>>, links |-> <<>>,
                 in_session |-> cascade_backrefs /\
                                (credit_account # NULL \/ debit_account # NULL)],
                uid, entry.tags)

\* The rows the commit inserts.
NewEntryRows(p, entry_id) ==
    {[id |-> entry_id, user_id |-> p.entry.user_id, who |-> p.entry.who,
      when |-> p.entry.when, credit_account_id |-> p.entry.credit_account_id,
      debit_account_id |-> p.entry.debit_account_id, amount |-> p.entry.amount,
      description |-> p.entry.description]}

NewTagRows(p) ==
    {[id |-> Cardinality(tags) + i, user_id |-> p.new_tags[i].user_id,
      tag |-> p.new_tags[i].tag] : i \in 1..Len(p.new_tags)}

\* The entry is written without its entry_tag rows.
NewEntryTagRows_None(p, entry_id) == {}

NewEntryTagRows(p, entry_id) ==
    {[id |-> entry_tag_seq + k, user_id |-> p.links[k].user_id,
      entry_id |-> entry_id,
      tag_id |-> IF p.links[k].tag_id # NULL THEN p.links[k].tag_id
                 ELSE Cardinality(tags) + p.links[k].new_tag] :
        k \in 1..Len(p.links)}

\* session.add(entry_m) and the commit on leaving the with block: entry, new
\* tags and associations are inserted in one transaction.
CommitAddEntry(p, input) ==
    /\ entry_seq' = entry_seq + 1
    /\ entries' = entries \cup NewEntryRows(p, entry_seq + 1)
    /\ tags' = tags \cup NewTagRows(p)
    /\ entry_tags' = entry_tags \cup NewEntryTagRows(p, entry_seq + 1)
    /\ entry_tag_seq' = entry_tag_seq + Len(p.links)
    /\ submitted' = submitted \cup {[id |-> entry_seq + 1, input |-> input]}
    /\ UNCHANGED <<users, accounts>>

add_entry(c, entry) ==
    /\ session[c].op = "idle"
    /\ entry_seq < MaxEntries
    /\ CommitAddEntry(AddEntryPlan(current_uid, entry), entry)
    /\ ret' = Ret("", FALSE)
    /\ UNCHANGED <<current_uid, cascade_backrefs, session, established>>

\* Two callers: the transaction has run its queries and built its objects.
add_entry_begin(c, entry) ==
    LET p == AddEntryPlan(current_uid, entry) IN
    /\ session[c].op = "idle"
    /\ session' = [session EXCEPT ![c] =
                      [op |-> "add_entry", entry |-> p.entry,
                       new_tags |-> p.new_tags, links |-> p.links,
                       input |-> entry, entry_id |-> NULL, del_tags |-> {}]]
    /\ UNCHANGED <<tables, current_uid, cascade_backrefs, established, submitted,
                   ret>>

add_entry_commit(c) ==
    /\ session[c].op = "add_entry"
    /\ CommitAddEntry(session[c], session[c].input)
    /\ session' = [session EXCEPT ![c] = Idle]
    /\ ret' = Ret("", FALSE)
    /\ UNCHANGED <<current_uid, cascade_backrefs, established>>

\* The lookup finds the entry whoever owns it.
EntryById_AnyOwner(uid, entry_id) == First({e \in entries : e.id = entry_id})

(***************************************************************************)
(* delete_entry                                                            *)
(***************************************************************************)
\* session.query(EntryModel).filter_by(user_id=..., id=entry_id).first()
EntryById(uid, entry_id) ==
    First({e \in entries : e.user_id = uid /\ e.id = entry_id})

\* entry.tags: the EntryTagModel rows of the entry.
EntryTagsOf(entry_id) == {et \in entry_tags : et.entry_id = entry_id}

\* Every association to a tag of the deleted entry goes with it.
EntryTagsAfterDelete_SharedTags(del_tags) ==
    {et \in entry_tags :
        ~\E d \in entry_tags : d.id \in del_tags /\ d.tag_id = et.tag_id}

\* The entry is deleted and its entry_tag rows are left behind.
EntryTagsAfterDelete_Kept(del_tags) == entry_tags

\* The rows left once the session has deleted the entry_tag objects it loaded
\* and the entry.
EntryTagsAfterDelete(del_tags) == {et \in entry_tags : et.id \notin del_tags}

EntriesAfterDelete(entry_id) == {e \in entries : e.id # entry_id}

CommitDelete(entry_id, del_tags) ==
    /\ entry_tags' = EntryTagsAfterDelete(del_tags)
    /\ entries' = EntriesAfterDelete(entry_id)
    /\ submitted' = {s \in submitted : s.id # entry_id}
    /\ UNCHANGED <<users, accounts, tags, entry_seq, entry_tag_seq>>

delete_entry(c, entry_id) ==
    LET entry == EntryById(current_uid, entry_id) IN
    /\ session[c].op = "idle"
    /\ IF entry = NULL
       THEN /\ ret' = Ret("", FALSE)
            /\ UNCHANGED <<tables, submitted>>
       ELSE /\ CommitDelete(entry, Ids(EntryTagsOf(entry)))
            /\ ret' = Ret("", TRUE)
    /\ UNCHANGED <<current_uid, cascade_backrefs, session, established>>

\* Two callers: the entry and its entry_tag objects are loaded; "return False"
\* ends the call at once.
delete_entry_begin(c, entry_id) ==
    LET entry == EntryById(current_uid, entry_id) IN
    /\ session[c].op = "idle"
    /\ IF entry = NULL
       THEN /\ ret' = Ret("", FALSE)
            /\ UNCHANGED session
       ELSE /\ session' = [session EXCEPT ![c] =
                              [Idle EXCEPT !.op = "delete_entry",
                                           !.entry.user_id = current_uid,
                                           !.entry_id = entry,
                                           !.del_tags = Ids(EntryTagsOf(entry))]]
            /\ UNCHANGED ret
    /\ UNCHANGED <<tables, current_uid, cascade_backrefs, established, submitted>>

\* The flush at commit.  A DELETE that matches no row (another transaction
\* deleted the entry first) raises StaleDataError and the transaction rolls back.
delete_entry_commit(c) ==
    /\ session[c].op = "delete_entry"
    /\ IF session[c].entry_id \in Ids(entries)
       THEN /\ CommitDelete(session[c].entry_id, session[c].del_tags)
            /\ ret' = Ret("", TRUE)
       ELSE /\ ret' = Ret("StaleDataError", FALSE)
            /\ UNCHANGED <<tables, submitted>>
    /\ session' = [session EXCEPT ![c] = Idle]
    /\ UNCHANGED <<current_uid, cascade_backrefs, established>>

(***************************************************************************)
(* Reads                                                                   *)
(***************************************************************************)
\* EntryModel.debit_account.has(name=...) / credit_account.has(name=...):
\* EXISTS (an account row with this id and this name).
HasName(account_id, name) ==
    \E a \in accounts : a.id = account_id /\ a.name = name

\* The query of list_entries: "if dr:" and "if cr:" skip an empty filter.
EntriesQuery(uid, dr, cr) ==
    {e \in entries :
        /\ e.user_id = uid
        /\ (dr # "" => HasName(e.debit_account_id, dr))
        /\ (cr # "" => HasName(e.credit_account_id, cr))}

\* [entry_tag.tag.tag for entry_tag in entry.tags]
TagTexts(entry_id) ==
    LET ets == InOrder(EntryTagsOf(entry_id)) IN
    [k \in 1..Len(ets) |-> Row(tags, ets[k].tag_id).tag]

\* The dictionary list_entries builds for one entry.
EntryRecord(e) ==
    [id |-> e.id, when |-> DateStr(e.when), description |-> e.description,
     credit_account |-> Row(accounts, e.credit_account_id).name,
     debit_account |-> Row(accounts, e.debit_account_id).name,
     amount |-> e.amount, who |-> e.who, tags |-> TagTexts(e.id)]

\* entry.credit_account.name on an entry whose account is None raises.
Unlistable(e) == e.credit_account_id = NULL \/ e.debit_account_id = NULL

\* What list_entries returns when it does not raise.
ListEntries(uid, dr, cr) ==
    LET es == InOrder(EntriesQuery(uid, dr, cr)) IN
    [i \in 1..Len(es) |-> EntryRecord(es[i])]

ListEntriesRaises(uid, dr, cr) == \E e \in EntriesQuery(uid, dr, cr) : Unlistable(e)

\* A read changes nothing, the result of the last write included; what it
\* returns, and whether it raises, are the operators above.
list_entries(c, dr, cr) ==
    /\ session[c].op = "idle"
    /\ UNCHANGED vars

\* The query of list_accounts: "if type_:" skips an empty filter.
AccountsQuery(uid, type) ==
    {a \in accounts : a.user_id = uid /\ (type # "" => a.type = type)}

ListAccounts(uid, type) ==
    LET as == InOrder(AccountsQuery(uid, type)) IN
    [i \in 1..Len(as) |-> [name |-> as[i].name, type |-> as[i].type]]

list_accounts(c, type) ==
    /\ session[c].op = "idle"
    /\ UNCHANGED vars

\* The two aggregate queries of get_account_balance.
SumCr(uid, account) ==
    SqlSum({e \in entries :
               e.user_id = uid /\ HasName(e.credit_account_id, account)})

SumDr(uid, account) ==
    SqlSum({e \in entries :
               e.user_id = uid /\ HasName(e.debit_account_id, account)})

\* "0 if not sum else sum": None and zero both give 0.
OrZero(s) == IF s.null \/ s.value = 0 THEN 0 ELSE s.value

\* Credits minus debits: the sign convention reversed.
Balance_CreditPositive(uid, account) ==
    OrZero(SumCr(uid, account)) - OrZero(SumDr(uid, account))

Balance(uid, account) == OrZero(SumDr(uid, account)) - OrZero(SumCr(uid, account))

get_account_balance(c, account) ==
    /\ session[c].op = "idle"
    /\ UNCHANGED vars

(***************************************************************************)
(* Specifications                                                          *)
(***************************************************************************)
\* The calls that are one step under every specification.
Call(c) ==
    \/ \E email \in Emails : set_current_user(c, email)
    \/ \E email \in Emails : create_user(c, email)
    \/ \E email \in Emails : get_user(c, email)
    \/ \E a \in AccountInputs : create_account(c, a.name, a.type)
    \/ \E dr \in Names \cup {""}, cr \in Names \cup {""} : list_entries(c, dr, cr)
    \/ \E type \in Types \cup {""} : list_accounts(c, type)
    \/ \E account \in Names : get_account_balance(c, account)

Next ==
    \E c \in {1} :
        \/ Call(c)
        \/ \E tag \in TagNames : create_tag(c, tag)
        \/ \E entry \in EntryInputs : add_entry(c, entry)
        \/ \E entry_id \in 1..(entry_seq + 1) : delete_entry(c, entry_id)

Spec == Init /\ [][Next]_vars

\* Two callers, each with an email of its own.
OwnEmail(c) == IF c = 1 THEN "alice" ELSE "bob"

\* Both users have registered and caller 1 has called set_current_user.
InitConc ==
    /\ users = {[id |-> 1, email |-> "alice"], [id |-> 2, email |-> "bob"]}
    /\ accounts = {}
    /\ tags = {}
    /\ entries = {}
    /\ entry_tags = {}
    /\ entry_seq = 0
    /\ entry_tag_seq = 0
    /\ current_uid = 1
    /\ cascade_backrefs \in BOOLEAN
    /\ session = [c \in Callers |-> Idle]
    /\ established = [c \in Callers |-> IF c = 1 THEN 1 ELSE NULL]
    /\ submitted = {}
    /\ ret = Ret("", FALSE)

\* The add_entry transactions that are open.
OpenAdds == Cardinality({c \in Callers : session[c].op = "add_entry"})

\* A transaction of add_entry or delete_entry in two steps.
Transact(c, inputs) ==
    \/ /\ entry_seq + OpenAdds < MaxEntries
       /\ \E entry \in inputs : add_entry_begin(c, entry)
    \/ add_entry_commit(c)
    \/ \E entry_id \in 1..(entry_seq + 1) : delete_entry_begin(c, entry_id)
    \/ delete_entry_commit(c)

\* The first account is created while both callers run.
CallConc(c) ==
    \/ set_current_user(c, OwnEmail(c))
    \/ /\ accounts = {}
       /\ \E a \in AccountInputs : create_account(c, a.name, a.type)
    \/ \E dr \in Names \cup {""}, cr \in Names \cup {""} : list_entries(c, dr, cr)
    \/ \E type \in Types \cup {""} : list_accounts(c, type)
    \/ \E account \in Names : get_account_balance(c, account)

NextConc ==
    \E c \in Callers :
        \/ CallConc(c)
        \/ \E tag \in TagNames : create_tag(c, tag)
        \/ Transact(c, EntryInputs)

SpecConc == InitConc /\ [][NextConc]_vars

\* No tag name twice in one list.
DistinctTags(entry) ==
    \A i, j \in 1..Len(entry.tags) : i # j => entry.tags[i] # entry.tags[j]

NextRace ==
    \E c \in Callers :
        \/ CallConc(c)
        \/ Transact(c, {entry \in EntryInputs : DistinctTags(entry)})

SpecRace == InitConc /\ [][NextRace]_vars

(***************************************************************************)
(* Properties                                                              *)
(***************************************************************************)
\* An account of this user has this name.
Resolves(uid, name) == \E a \in accounts : a.user_id = uid /\ a.name = name

\* C1: add_entry with a credit or debit account name that names no account of
\* the current user raises AccountNotFound and leaves every table as it was.
C1_UnresolvedAccountFails ==
    [][\A c \in Callers, entry \in EntryInputs :
          (/\ add_entry(c, entry)
           /\ current_uid # NULL
           /\ \/ ~Resolves(current_uid, entry.credit_account)
              \/ ~Resolves(current_uid, entry.debit_account))
          => (ret'.err = "AccountNotFound" /\ UNCHANGED tables)]_vars

\* C2: the credit account and the debit account of every entry are owned by
\* the user that owns the entry.
C2_EntryAccountsOwnedByEntryOwner ==
    \A e \in entries, a \in accounts :
        (/\ e.user_id # NULL
         /\ a.user_id # NULL
         /\ a.id \in {e.credit_account_id, e.debit_account_id})
        => a.user_id = e.user_id

\* The name of the account on one side of an entry ("" when it has none).
SideName(account_id) ==
    IF account_id \in Ids(accounts) THEN Row(accounts, account_id).name ELSE ""

\* What one entry adds to the balance of an account: its amount when it debits
\* the account, less its amount when it credits it.
Net(e, account) ==
    (IF SideName(e.debit_account_id) = account THEN e.amount ELSE 0)
    - (IF SideName(e.credit_account_id) = account THEN e.amount ELSE 0)

RECURSIVE NetSum(_, _)
NetSum(T, account) ==
    IF T = {} THEN 0
    ELSE LET e == CHOOSE x \in T : TRUE
         IN  Net(e, account) + NetSum(T \ {e}, account)

\* C3: whatever entries have been added and deleted, the balance of an account
\* under the current identity is the sum of the amounts of that user's entries
\* debiting it minus the sum of those crediting it, and zero when there are none.
C3_BalanceIsDebitsMinusCredits ==
    \A account \in Names :
        Balance(current_uid, account) =
            NetSum({e \in entries : e.user_id = current_uid}, account)

\* One entry has been deleted, and the one left debits cash and credits salary.
C3_Witness ==
    /\ current_uid # NULL
    /\ entry_seq = 2
    /\ \E e \in entries :
          /\ entries = {e}
          /\ e.user_id = current_uid
          /\ SideName(e.debit_account_id) = "cash"
          /\ SideName(e.credit_account_id) = "salary"
          /\ Balance(current_uid, "cash") = e.amount
          /\ Balance(current_uid, "salary") = 0 - e.amount

\* C4 (state): no committed state holds an entry without every association
\* submitted with it, or an association without its entry and its tag.
C4_WholeEntries ==
    /\ \A e \in entries :
          \E s \in submitted :
              /\ s.id = e.id
              /\ Cardinality(EntryTagsOf(e.id)) = Len(s.input.tags)
    /\ \A et \in entry_tags :
          et.entry_id \in Ids(entries) /\ et.tag_id \in Ids(tags)

\* C4 (step): a commit that raises leaves every table as it was.
C4_FailedCommit ==
    \A c \in Callers :
        ((add_entry_commit(c) \/ delete_entry_commit(c)) /\ ret'.err # "")
        => UNCHANGED tables

\* C4: add_entry and delete_entry write all their rows or none, whatever the
\* other caller is doing: entry and associations appear and disappear together.
C4_AtomicMultiRowWrites == [](C4_WholeEntries) /\ [][C4_FailedCommit]_vars

\* An entry with two associations is committed while the other caller's
\* transaction is open.
C4_Witness ==
    /\ \E e \in entries : Cardinality(EntryTagsOf(e.id)) = 2
    /\ \E c \in Callers : session[c].op # "idle"
    /\ entry_seq = 2

\* One-step calls of caller c that read current_uid.
UsesIdentity(c) ==
    \/ \E a \in AccountInputs : create_account(c, a.name, a.type)
    \/ \E tag \in TagNames : create_tag(c, tag)
    \/ \E entry \in EntryInputs : add_entry_begin(c, entry)
    \/ \E entry_id \in 1..(entry_seq + 1) : delete_entry_begin(c, entry_id)
    \/ \E dr \in Names \cup {""}, cr \in Names \cup {""} : list_entries(c, dr, cr)
    \/ \E type \in Types \cup {""} : list_accounts(c, type)
    \/ \E account \in Names : get_account_balance(c, account)

\* C5: with two callers that have each called set_current_user with their own
\* email, every row a caller writes is owned by the identity that caller set,
\* and every call a caller makes runs under the identity that caller set.
C5_CallersKeepTheirIdentity ==
    [][\A c \in Callers :
          established[c] # NULL =>
              /\ UsesIdentity(c) => current_uid = established[c]
              /\ \A r \in (accounts' \ accounts) \cup (tags' \ tags) :
                    (\/ \E a \in AccountInputs : create_account(c, a.name, a.type)
                     \/ \E tag \in TagNames : create_tag(c, tag))
                    => r.user_id = established[c]]_vars

\* C6 (step): delete_entry on an entry of the current user returns True and
\* removes the entry and its associations; afterwards no query of list_entries
\* finds it and the lookup of delete_entry finds nothing; delete_entry on the
\* id of an entry deleted before returns False; an id once deleted is never
\* an entry again.
C6_Step ==
    /\ \A e \in entries :
          (e.user_id = current_uid /\ delete_entry(1, e.id)) =>
              /\ ret' = Ret("", TRUE)
              /\ e.id \notin Ids(entries')
              /\ \A et \in entry_tags' : et.entry_id # e.id
              /\ EntryById(current_uid, e.id)' = NULL
              /\ \A dr \in Names \cup {""}, cr \in Names \cup {""} :
                    e.id \notin Ids(EntriesQuery(current_uid, dr, cr))'
    /\ \A entry_id \in (1..entry_seq) \ Ids(entries) :
          /\ delete_entry(1, entry_id) => ret' = Ret("", FALSE)
          /\ entry_id \notin Ids(entries')

\* C6: deleting an existing entry removes it and its associations for good.
C6_DeleteRemovesEntryAndAssociations == [][C6_Step]_vars

\* An entry that had two associations has been deleted.
C6_Witness ==
    /\ current_uid # NULL
    /\ ret = Ret("", TRUE)
    /\ entry_seq = 1
    /\ entry_tag_seq = 2
    /\ entries = {}
    /\ entry_tags = {}
    /\ tags # {}

\* The tag rows of one owner with one text.
TagRows(uid, tag_name) == {t \in tags : t.user_id = uid /\ t.tag = tag_name}

\* C7: when add_entry resolves a tag name for a user who has at most one such
\* tag, every occurrence of the name in the list gets the same tag and the
\* user has exactly one tag row of that name afterwards.
C7_GetOrCreateTagIdempotent ==
    [][\A c \in Callers, entry \in EntryInputs :
          (add_entry(c, entry) /\ current_uid # NULL)
          => \A k \in 1..Len(entry.tags) :
                Cardinality(TagRows(current_uid, entry.tags[k])) <= 1
                => Cardinality(TagRows(current_uid, entry.tags[k]))' = 1]_vars

\* C8: with concurrent add_entry calls and no create_tag, no user has two tag
\* rows of the same text.
C8_TagsUniquePerOwner ==
    \A t1 \in tags, t2 \in tags :
        (t1.user_id = t2.user_id /\ t1.tag = t2.tag) => t1.id = t2.id

\* C9: every association links an entry to a tag of the entry's owner.
C9_AssociationsStayWithOwner ==
    \A et \in entry_tags, e \in entries, t \in tags :
        (/\ et.entry_id = e.id
         /\ et.tag_id = t.id
         /\ e.user_id # NULL
         /\ t.user_id # NULL)
        => t.user_id = e.user_id

\* C10: no two account rows have the same owner and the same name.
C10_AccountNamesUniquePerOwner ==
    \A a1 \in accounts, a2 \in accounts :
        (a1.user_id = a2.user_id /\ a1.name = a2.name) => a1.id = a2.id

\* The record list_entries returns for entry entry_id of user uid, as a set:
\* empty when the call raises or the entry is not listed.
Listed(uid, entry_id) ==
    IF ListEntriesRaises(uid, "", "") THEN {}
    ELSE {ListEntries(uid, "", "")[i] : i \in
             {j \in 1..Len(ListEntries(uid, "", "")) :
                 ListEntries(uid, "", "")[j].id = entry_id}}

\* C11: every stored entry of a user is listed by list_entries for that user
\* with who, when, credit and debit account name, amount, description and tag
\* texts equal to what was passed to add_entry.
C11_ListedAsSubmitted ==
    \A s \in submitted, e \in entries :
        (e.id = s.id /\ e.user_id # NULL)
        => \E r \in Listed(e.user_id, e.id) :
              /\ r.who = s.input.who
              /\ r.when = DateStr(s.input.when)
              /\ r.credit_account = s.input.credit_account
              /\ r.debit_account = s.input.debit_account
              /\ r.amount = s.input.amount
              /\ r.description = s.input.description
              /\ r.tags = s.input.tags

\* The current user's entries a filter pair asks for, by the names of the
\* accounts the entries reference.
Wanted(uid, dr, cr) ==
    {e.id : e \in {x \in entries :
                      /\ x.user_id = uid
                      /\ (dr # "" => SideName(x.debit_account_id) = dr)
                      /\ (cr # "" => SideName(x.credit_account_id) = cr)}}

\* C12: for an established identity, list_entries with a debit filter, a
\* credit filter, both or neither returns exactly the current user's entries
\* whose debit and credit account have the names asked for.
C12_FilterSelectsExactly ==
    current_uid # NULL =>
        \A dr \in Names \cup {""}, cr \in Names \cup {""} :
            /\ ~ListEntriesRaises(current_uid, dr, cr)
            /\ {ListEntries(current_uid, dr, cr)[i].id :
                   i \in 1..Len(ListEntries(current_uid, dr, cr))}
               = Wanted(current_uid, dr, cr)

\* C13: set_current_user with an email of no user fails with UserNotFound and
\* leaves the identity in effect as it was.
C13_UnknownEmailFails ==
    [][\A c \in Callers, email \in Emails :
          (set_current_user(c, email) /\ ~\E u \in users : u.email = email)
          => (ret'.err = "UserNotFound" /\ current_uid' = current_uid)]_vars

\* A write of caller c other than set_current_user and create_user.
WritesStore(c) ==
    \/ \E a \in AccountInputs : create_account(c, a.name, a.type)
    \/ \E tag \in TagNames : create_tag(c, tag)
    \/ \E entry \in EntryInputs : add_entry(c, entry)
    \/ \E entry_id \in 1..(entry_seq + 1) : delete_entry(c, entry_id)

\* C14: a write called before any identity is established fails with
\* NoActiveUser and writes nothing, and no account, tag, entry or association
\* has an undefined owner.
C14_NoWriteWithoutIdentity ==
    [][/\ \A c \in Callers :
             (current_uid = NULL /\ WritesStore(c))
             => (ret'.err = "NoActiveUser" /\ UNCHANGED tables)
       /\ \A a \in accounts' : a.user_id # NULL
       /\ \A t \in tags' : t.user_id # NULL
       /\ \A e \in entries' : e.user_id # NULL
       /\ \A et \in entry_tags' : et.user_id # NULL]_vars

\* The account a side of an entry references is named account and is not
\* another user's.
OwnSide(uid, account_id, account) ==
    \E a \in accounts :
        /\ a.id = account_id
        /\ a.name = account
        /\ a.user_id \notin Ids(users) \ {uid}

\* The balance of account for uid computed without the rows of other users:
\* what the user reads in the run where no other user has done anything.
RECURSIVE OwnNetSum(_, _, _)
OwnNetSum(T, uid, account) ==
    IF T = {} THEN 0
    ELSE LET e == Row(T, Min(Ids(T))) IN
         (IF OwnSide(uid, e.debit_account_id, account) THEN e.amount ELSE 0)
         - (IF OwnSide(uid, e.credit_account_id, account) THEN e.amount ELSE 0)
         + OwnNetSum(T \ {e}, uid, account)

\* C15: what a user reads does not depend on what other users have done: for
\* every user, get_account_balance gives what it gives without the rows of
\* the other users.
C15_ReadsDependOnOwnRowsOnly ==
    \A u \in users, account \in Names :
        Balance(u.id, account)
        = OwnNetSum({e \in entries : e.user_id = u.id}, u.id, account)

\* C16 (step): delete_entry with an id that is no entry of the current
\* identity (never used, deleted before, or another user's) returns False,
\* raises nothing and leaves every table as it was.
C16_Step ==
    \A entry_id \in 1..(entry_seq + 1) :
        (/\ ~\E e \in entries : e.id = entry_id /\ e.user_id = current_uid
         /\ delete_entry(1, entry_id))
        => (ret' = Ret("", FALSE) /\ UNCHANGED tables)

\* C16: delete_entry on an id the current identity does not own changes
\* nothing and returns False.
C16_DeleteOfForeignOrMissingIsNoOp == [][C16_Step]_vars

\* An entry with two associations was deleted, a write that returned no row
\* followed, and another user's entry is still there with its associations.
C16_Witness ==
    /\ current_uid # NULL
    /\ ret = Ret("", FALSE)
    /\ entry_seq = 2
    /\ entry_tag_seq = 4
    /\ \E e \in entries :
          /\ entries = {e}
          /\ e.user_id \notin {NULL, current_uid}
          /\ Cardinality(EntryTagsOf(e.id)) = 2

\* C17 (step): a delete_entry that deletes an entry leaves the tag rows and
\* the account rows as they were, and every other entry with all of its
\* associations.
C17_Step ==
    \A e \in entries :
        (e.user_id = current_uid /\ delete_entry(1, e.id))
        => /\ tags' = tags
           /\ accounts' = accounts
           /\ \A o \in entries \ {e} :
                 /\ o \in entries'
                 /\ {et \in entry_tags' : et.entry_id = o.id} = EntryTagsOf(o.id)

\* C17: delete_entry never deletes a tag, an account, or an association of
\* another entry, shared tags included.
C17_DeleteKeepsTagsAndOtherEntries == [][C17_Step]_vars

\* Two entries shared their tags (four associations over at most two tag
\* rows); one has been deleted and the other still has its two associations.
C17_Witness ==
    /\ ret = Ret("", TRUE)
    /\ entry_seq = 2
    /\ entry_tag_seq = 4
    /\ Cardinality(tags) <= 2
    /\ \E e \in entries :
          /\ entries = {e}
          /\ Cardinality(EntryTagsOf(e.id)) = 2
          /\ \A et \in entry_tags : et.tag_id \in Ids(tags)

\* C18: every entry references an existing credit account and an existing
\* debit account, and every association an existing entry and an existing tag.
C18_ReferentialIntegrity ==
    /\ \A e \in entries :
          /\ e.credit_account_id \in Ids(accounts)
          /\ e.debit_account_id \in Ids(accounts)
    /\ \A et \in entry_tags :
          /\ et.entry_id \in Ids(entries)
          /\ et.tag_id \in Ids(tags)

\* The sum of get_account_balance over the names in a sequence.
RECURSIVE BalanceSum(_, _)
BalanceSum(uid, names) ==
    IF names = <<>> THEN 0
    ELSE Balance(uid, Head(names)) + BalanceSum(uid, Tail(names))

\* The names of the accounts of uid, each once, as a sequence.
RECURSIVE NameSeq(_)
NameSeq(S) ==
    IF S = {} THEN <<>>
    ELSE LET n == CHOOSE x \in S : TRUE IN <<n>> \o NameSeq(S \ {n})

\* C19: for every user, the balances of the user's accounts sum to zero.
C19_BalancesSumToZero ==
    \A u \in users :
        BalanceSum(u.id, NameSeq({a.name : a \in {x \in accounts : x.user_id = u.id}}))
        = 0

\* C20: with an identity established, list_entries returns for every filter
\* pair: no stored entry of the user lacks an account its record needs.
C20_ListEntriesTotal ==
    current_uid # NULL =>
        \A dr \in Names \cup {""}, cr \in Names \cup {""} :
            ~ListEntriesRaises(current_uid, dr, cr)

====
